---- MODULE Spec2Model ----
(***************************************************************************)
(* Model of csv/abc.py: a pandas script that loads a CSV of credit card    *)
(* products, builds two boolean masks (needle 'visa signature' in any of   *)
(* 'Network 1'..'Network 4', needle 'icici' in 'Bank'), conjoins them,     *)
(* projects 'Credit Card Name' on the selected rows, removes duplicates    *)
(* and prints the names.  One action per statement of the script; a        *)
(* statement that raises ends the run (pc = "raised").                     *)
(*                                                                         *)
(* Text is a sequence of one-character strings, so that lower-casing and   *)
(* substring search are computed, not assumed.  A cell is a record         *)
(* [isna, s]: NaN (an empty CSV field) or a text.                          *)
(***************************************************************************)
EXTENDS Integers, Sequences, FiniteSets

VARIABLES csv_file, pc, bound, df, visa_mask, canara_mask, final_mask,
          matching_cards, card, iter, stdout, exc, raised_at

vars == <<csv_file, pc, bound, df, visa_mask, canara_mask, final_mask,
          matching_cards, card, iter, stdout, exc, raised_at>>

(***************************************************************************)
(* Bounds of the model.                                                    *)
(***************************************************************************)
MaxRows == 2

(***************************************************************************)
(* Characters and lower-casing (Python str.lower, restricted to the        *)
(* characters the model's texts use).  LongS stands for U+017F, LATIN      *)
(* SMALL LETTER LONG S: a lower-case letter, which lower() leaves alone    *)
(* and whose upper-case is the ASCII letter S.                             *)
(***************************************************************************)
UpperAlpha == <<"A","B","C","D","E","F","G","H","I","J","K","L","M",
                "N","O","P","Q","R","S","T","U","V","W","X","Y","Z">>
LowerAlpha == <<"a","b","c","d","e","f","g","h","i","j","k","l","m",
                "n","o","p","q","r","s","t","u","v","w","x","y","z">>
LongS == "U+017F"

IndexIn(alpha, c) == CHOOSE i \in DOMAIN alpha : alpha[i] = c

\* the characters of the model's texts
Alphabet ==
    {UpperAlpha[i] : i \in DOMAIN UpperAlpha}
    \cup {LowerAlpha[i] : i \in DOMAIN LowerAlpha} \cup {" ", LongS}

\* str.lower() character by character: an upper-case ASCII letter becomes
\* its lower-case letter, every other character of the alphabet stays
LowerTable ==
    [c \in Alphabet |->
        IF \E i \in DOMAIN UpperAlpha : UpperAlpha[i] = c
        THEN LowerAlpha[IndexIn(UpperAlpha, c)]
        ELSE c]

\* str.lower() on one character
LowerChar(c) == LowerTable[c]

\* mutant of Lower: the text is searched as it is, not lower-cased
NoLower(s) == s

\* str.lower()
Lower(s) == [i \in DOMAIN s |-> LowerChar(s[i])]

\* pattern search of Series.str.contains; the two patterns of the script
\* have no regular-expression metacharacter, so the search is a plain
\* substring test
Contains(s, pat) ==
    \E i \in 0..(Len(s) - Len(pat)) : SubSeq(s, i + 1, i + Len(pat)) = pat

(***************************************************************************)
(* Cells.                                                                  *)
(***************************************************************************)
NaN == [isna |-> TRUE, s |-> <<>>]
Text(s) == [isna |-> FALSE, s |-> s]

(***************************************************************************)
(* Program constants.                                                      *)
(***************************************************************************)
network_cols == <<"Network 1", "Network 2", "Network 3", "Network 4">>
BankCol == "Bank"
NameCol == "Credit Card Name"
NetworkSet == {network_cols[k] : k \in DOMAIN network_cols}
RequiredCols == NetworkSet \cup {BankCol, NameCol}

VisaNeedle == <<"v","i","s","a"," ","s","i","g","n","a","t","u","r","e">>
BankNeedle == <<"i","c","i","c","i">>

HeaderLine == <<"Matching Credit Cards with both 'Visa' and 'Canara':">>
Suffix == "(Visa Signature)"

(***************************************************************************)
(* Input texts.                                                            *)
(***************************************************************************)
VisaSignatureMixed == <<"V","i","s","a"," ","S","i","g","n","a","t","u","r","e">>
VisaSignatureUpper == <<"V","I","S","A"," ","S","I","G","N","A","T","U","R","E">>
VisaSignatureLower == VisaNeedle
VisaSignatureLongS == <<"V","i",LongS,"a"," ","S","i","g","n","a","t","u","r","e">>
Rupay == <<"R","u","p","a","y">>
IciciBank == <<"I","C","I","C","I"," ","B","a","n","k">>
Icici == <<"I","C","I","C","I">>
Hdfc == <<"H","D","F","C">>
CardA == <<"C","a","r","d"," ","A">>
CardB == <<"C","a","r","d"," ","B">>
CardC == <<"C","a","r","d"," ","C">>

(***************************************************************************)
(* Input files.  A CSV file is its header (the set of column names) and    *)
(* its records in file order; a record maps each header column to a cell.  *)
(***************************************************************************)
NetworkTuples ==
    { <<NaN, NaN, NaN, NaN>>,
      <<NaN, Text(VisaSignatureUpper), NaN, NaN>>,
      <<Text(Rupay), Text(Rupay), Text(Rupay), Text(Rupay)>>,
      <<Text(Rupay), Text(Rupay), Text(Rupay), Text(VisaSignatureLower)>>,
      <<Text(VisaSignatureMixed), Text(Rupay), Text(Rupay), Text(Rupay)>>,
      <<Text(VisaSignatureLongS), Text(Rupay), Text(Rupay), Text(Rupay)>> }
BankCells == {NaN, Text(IciciBank), Text(Hdfc)}
NameCells == {NaN, Text(CardA), Text(CardB)}

Record(n, b, c) ==
    [col \in RequiredCols |->
        IF col = BankCol THEN b
        ELSE IF col = NameCol THEN c
        ELSE n[IndexIn(network_cols, col)]]

Records == {Record(n, b, c) : n \in NetworkTuples, b \in BankCells, c \in NameCells}

\* records used under an incomplete header: every network column is text
FilledRecords ==
    {Record(n, b, c) :
        n \in {t \in NetworkTuples : \A k \in DOMAIN t : ~t[k].isna},
        b \in {Text(IciciBank)}, c \in {Text(CardA), Text(CardB)}}

Restrict(r, header) == [col \in header |-> r[col]]

File(header, recs) ==
    [exists |-> TRUE, header |-> header,
     rows |-> [i \in DOMAIN recs |-> Restrict(recs[i], header)]]

NoFile == [exists |-> FALSE, header |-> {}, rows |-> <<>>]

\* the four-record table of the end-to-end example
ExampleFile ==
    File(RequiredCols,
         << Record(<<Text(VisaSignatureMixed), NaN, NaN, NaN>>, Text(IciciBank), Text(CardA)),
            Record(<<Text(Rupay), NaN, NaN, NaN>>, Text(IciciBank), Text(CardB)),
            Record(<<NaN, Text(VisaSignatureUpper), NaN, NaN>>, Text(Hdfc), Text(CardC)),
            Record(<<Text(VisaSignatureMixed), NaN, NaN, NaN>>, Text(Icici), Text(CardA)) >>)

\* the files a run may be given: no file at the path; the example; every
\* table of at most MaxRows records under the full header; tables of
\* filled records under every incomplete header
IsInputFile(f) ==
    \/ f = NoFile
    \/ f = ExampleFile
    \/ \E k \in 0..MaxRows : \E recs \in [1..k -> Records] :
          f = File(RequiredCols, recs)
    \/ \E h \in (SUBSET RequiredCols) \ {RequiredCols} :
          \E k \in 0..MaxRows : \E recs \in [1..k -> FilledRecords] :
             f = File(h, recs)

\* records whose bank and name are texts and whose network cells show the
\* needle in several casings
CaseRecords ==
    {Record(n, b, c) :
        n \in {t \in NetworkTuples : \E k \in DOMAIN t : ~t[k].isna},
        b \in {Text(IciciBank), Text(Hdfc)}, c \in {Text(CardA), Text(CardB)}}

\* the tables of at most MaxRows such records under the full header
IsCaseFile(f) ==
    \E k \in 0..MaxRows : \E recs \in [1..k -> CaseRecords] :
        f = File(RequiredCols, recs)

(***************************************************************************)
(* pandas operations used by the script.                                   *)
(***************************************************************************)
NoFrame == [columns |-> {}, rows |-> <<>>]

\* pd.read_csv: columns named by the header, records in file order
ReadCsv(f) == [columns |-> f.header, rows |-> f.rows]

\* df[col]: the column as a Series (a sequence of cells)
Column(frame, col) == [i \in DOMAIN frame.rows |-> frame.rows[i][col]]

\* dtype read_csv infers for a column: object when the column holds a text
\* or the file has no record; float64 when every cell is empty
Dtype(frame, col) ==
    IF frame.rows = <<>> \/ \E i \in DOMAIN frame.rows : ~frame.rows[i][col].isna
    THEN "object" ELSE "float64"

\* Series.str: available on object columns only (AttributeError otherwise)
HasStr(frame, col) == Dtype(frame, col) = "object"

\* Series.str.lower(): NaN stays NaN
StrLower(series) ==
    [i \in DOMAIN series |->
        IF series[i].isna THEN series[i] ELSE Text(Lower(series[i].s))]

\* Series.str.contains(pat, na=na)
StrContains(series, pat, na) ==
    [i \in DOMAIN series |->
        IF series[i].isna THEN na ELSE Contains(series[i].s, pat)]

\* mutant of LowerContains: an empty cell counts as a match (na=True)
LowerContainsNaTrue(series, pat) == StrContains(StrLower(series), pat, TRUE)

\* the lambda of line 13 and the expression of line 16
LowerContains(series, pat) == StrContains(StrLower(series), pat, FALSE)

\* df[network_cols].apply(lambda col: ...).any(axis=1)
VisaMask(frame) ==
    [i \in DOMAIN frame.rows |->
        \E k \in DOMAIN network_cols :
            LowerContains(Column(frame, network_cols[k]), VisaNeedle)[i]]

\* df['Bank'].str.lower().str.contains('icici', na=False)
CanaraMask(frame) == LowerContains(Column(frame, BankCol), BankNeedle)

\* mutant of And: the masks are combined with | instead of &
Or(m1, m2) == [i \in DOMAIN m1 |-> m1[i] \/ m2[i]]

\* visa_mask & canara_mask
And(m1, m2) == [i \in DOMAIN m1 |-> m1[i] /\ m2[i]]

\* df.loc[mask, col]: the cells of col on the rows the mask selects
RECURSIVE LocFrom(_, _, _, _)
LocFrom(frame, mask, col, i) ==
    IF i > Len(frame.rows) THEN <<>>
    ELSE (IF mask[i] THEN <<frame.rows[i][col]>> ELSE <<>>)
         \o LocFrom(frame, mask, col, i + 1)
Loc(frame, mask, col) == LocFrom(frame, mask, col, 1)

\* the hash-table pass of Series.unique(): acc holds the values seen so far
RECURSIVE UniqueFrom(_, _)
UniqueFrom(series, acc) ==
    IF series = <<>> THEN acc
    ELSE UniqueFrom(Tail(series),
                    IF \E k \in DOMAIN acc : acc[k] = Head(series)
                    THEN acc ELSE Append(acc, Head(series)))

\* mutant of Unique: the projected column is used without .unique()
NoUnique(series) == series

\* mutant of Unique: empty names are dropped before .unique()
UniqueDropNa(series) == SelectSeq(UniqueFrom(series, <<>>), LAMBDA c : ~c.isna)

\* Series.unique(): values in order of first appearance, NaN kept, once
Unique(series) == UniqueFrom(series, <<>>)

\* str(card) as print writes it: a NaN prints as nan
Str(cell) == IF cell.isna THEN <<"n","a","n">> ELSE cell.s

\* print("", card, "(Visa Signature)"): the arguments, joined by spaces
CardLine(cell) == <<"", Str(cell), Suffix>>

(***************************************************************************)
(* The script, one action per statement.  bound is the set of module-level *)
(* names already assigned; exc and raised_at describe the uncaught         *)
(* exception that ended the run, if any.                                   *)
(***************************************************************************)
\* the interpreter before the first statement
Start ==
    /\ pc = "read_csv"
    /\ bound = {}
    /\ df = NoFrame
    /\ visa_mask = <<>>
    /\ canara_mask = <<>>
    /\ final_mask = <<>>
    /\ matching_cards = <<>>
    /\ card = NaN
    /\ iter = 0
    /\ stdout = <<>>
    /\ exc = "None"
    /\ raised_at = "None"

Init == IsInputFile(csv_file) /\ Start

\* runs on the tables of text records
InitCase == IsCaseFile(csv_file) /\ Start

Raise(e) ==
    /\ pc' = "raised"
    /\ exc' = e
    /\ raised_at' = pc

Goto(next) ==
    /\ pc' = next
    /\ UNCHANGED <<exc, raised_at>>

\* line 7: df = pd.read_csv(file_path)
Stmt_read_csv ==
    /\ pc = "read_csv"
    /\ IF csv_file.exists
       THEN /\ df' = ReadCsv(csv_file)
            /\ bound' = bound \cup {"df"}
            /\ Goto("visa_mask")
       ELSE /\ Raise("FileNotFoundError")
            /\ UNCHANGED <<df, bound>>
    /\ UNCHANGED <<csv_file, visa_mask, canara_mask, final_mask,
                   matching_cards, card, iter, stdout>>

\* mutant of Stmt_visa_mask: every required column is validated up front,
\* before the first mask is computed
Stmt_visa_mask_validates_all ==
    /\ pc = "visa_mask"
    /\ IF ~(RequiredCols \subseteq df.columns)
       THEN /\ Raise("KeyError")
            /\ UNCHANGED <<visa_mask, bound>>
       ELSE IF \E k \in DOMAIN network_cols : ~HasStr(df, network_cols[k])
       THEN /\ Raise("AttributeError")
            /\ UNCHANGED <<visa_mask, bound>>
       ELSE /\ visa_mask' = VisaMask(df)
            /\ bound' = bound \cup {"visa_mask"}
            /\ Goto("canara_mask")
    /\ UNCHANGED <<csv_file, df, canara_mask, final_mask,
                   matching_cards, card, iter, stdout>>

\* line 13: visa_mask = df[network_cols].apply(lambda col: ...).any(axis=1)
Stmt_visa_mask ==
    /\ pc = "visa_mask"
    /\ IF ~(NetworkSet \subseteq df.columns)
       THEN /\ Raise("KeyError")
            /\ UNCHANGED <<visa_mask, bound>>
       ELSE IF \E k \in DOMAIN network_cols : ~HasStr(df, network_cols[k])
       THEN /\ Raise("AttributeError")
            /\ UNCHANGED <<visa_mask, bound>>
       ELSE /\ visa_mask' = VisaMask(df)
            /\ bound' = bound \cup {"visa_mask"}
            /\ Goto("canara_mask")
    /\ UNCHANGED <<csv_file, df, canara_mask, final_mask,
                   matching_cards, card, iter, stdout>>

\* line 16: canara_mask = df['Bank'].str.lower().str.contains('icici', na=False)
Stmt_canara_mask ==
    /\ pc = "canara_mask"
    /\ IF BankCol \notin df.columns
       THEN /\ Raise("KeyError")
            /\ UNCHANGED <<canara_mask, bound>>
       ELSE IF ~HasStr(df, BankCol)
       THEN /\ Raise("AttributeError")
            /\ UNCHANGED <<canara_mask, bound>>
       ELSE /\ canara_mask' = CanaraMask(df)
            /\ bound' = bound \cup {"canara_mask"}
            /\ Goto("final_mask")
    /\ UNCHANGED <<csv_file, df, visa_mask, final_mask,
                   matching_cards, card, iter, stdout>>

\* line 19: final_mask = visa_mask & canara_mask
Stmt_final_mask ==
    /\ pc = "final_mask"
    /\ final_mask' = And(visa_mask, canara_mask)
    /\ bound' = bound \cup {"final_mask"}
    /\ Goto("matching_cards")
    /\ UNCHANGED <<csv_file, df, visa_mask, canara_mask,
                   matching_cards, card, iter, stdout>>

\* mutant of Stmt_matching_cards: the header is printed before the card-name
\* column is looked up
Stmt_matching_cards_after_header ==
    /\ pc = "matching_cards"
    /\ stdout' = Append(stdout, HeaderLine)
    /\ IF NameCol \notin df.columns
       THEN /\ Raise("KeyError")
            /\ UNCHANGED <<matching_cards, bound>>
       ELSE /\ matching_cards' = Unique(Loc(df, final_mask, NameCol))
            /\ bound' = bound \cup {"matching_cards"}
            /\ Goto("for_card")
    /\ UNCHANGED <<csv_file, df, visa_mask, canara_mask, final_mask,
                   card, iter>>

\* line 22: matching_cards = df.loc[final_mask, 'Credit Card Name'].unique()
Stmt_matching_cards ==
    /\ pc = "matching_cards"
    /\ IF NameCol \notin df.columns
       THEN /\ Raise("KeyError")
            /\ UNCHANGED <<matching_cards, bound>>
       ELSE /\ matching_cards' = Unique(Loc(df, final_mask, NameCol))
            /\ bound' = bound \cup {"matching_cards"}
            /\ Goto("print_header")
    /\ UNCHANGED <<csv_file, df, visa_mask, canara_mask, final_mask,
                   card, iter, stdout>>

\* line 25: print("Matching Credit Cards with both 'Visa' and 'Canara':")
Stmt_print_header ==
    /\ pc = "print_header"
    /\ stdout' = Append(stdout, HeaderLine)
    /\ Goto("for_card")
    /\ UNCHANGED <<csv_file, df, visa_mask, canara_mask, final_mask,
                   matching_cards, card, iter, bound>>

\* mutant of Stmt_for_card: the header is printed inside the loop
Stmt_for_card_header_inside ==
    /\ pc = "for_card"
    /\ iter < Len(matching_cards)
    /\ card' = matching_cards[iter + 1]
    /\ iter' = iter + 1
    /\ bound' = bound \cup {"card"}
    /\ stdout' = stdout \o <<HeaderLine, CardLine(matching_cards[iter + 1])>>
    /\ Goto("for_card")
    /\ UNCHANGED <<csv_file, df, visa_mask, canara_mask, final_mask,
                   matching_cards>>

\* lines 26-27: one iteration of the loop, print("", card, "(Visa Signature)")
Stmt_for_card ==
    /\ pc = "for_card"
    /\ iter < Len(matching_cards)
    /\ card' = matching_cards[iter + 1]
    /\ iter' = iter + 1
    /\ bound' = bound \cup {"card"}
    /\ stdout' = Append(stdout, CardLine(matching_cards[iter + 1]))
    /\ Goto("for_card")
    /\ UNCHANGED <<csv_file, df, visa_mask, canara_mask, final_mask,
                   matching_cards>>

\* line 26: the iterator is exhausted, the script ends
Stmt_end ==
    /\ pc = "for_card"
    /\ iter = Len(matching_cards)
    /\ Goto("exit0")
    /\ UNCHANGED <<csv_file, df, visa_mask, canara_mask, final_mask,
                   matching_cards, card, iter, bound, stdout>>

Next ==
    \/ Stmt_read_csv
    \/ Stmt_visa_mask
    \/ Stmt_canara_mask
    \/ Stmt_final_mask
    \/ Stmt_matching_cards
    \/ Stmt_print_header
    \/ Stmt_for_card
    \/ Stmt_end

Spec == Init /\ [][Next]_vars

SpecCase == InitCase /\ [][Next]_vars

(***************************************************************************)
(* Vocabulary of the properties.                                           *)
(***************************************************************************)
Bound(name) == name \in bound

\* upper- and lower-casing of the ASCII letters, character by character
AsciiUpperTable ==
    [c \in Alphabet |->
        IF \E i \in DOMAIN LowerAlpha : LowerAlpha[i] = c
        THEN UpperAlpha[IndexIn(LowerAlpha, c)]
        ELSE c]
AsciiLowerTable ==
    [c \in Alphabet |->
        IF \E i \in DOMAIN UpperAlpha : UpperAlpha[i] = c
        THEN LowerAlpha[IndexIn(UpperAlpha, c)]
        ELSE c]
AsciiUpperChar(c) == AsciiUpperTable[c]
AsciiLowerChar(c) == AsciiLowerTable[c]

\* str.upper() on one character: long s becomes S
UpperChar(c) == IF c = LongS THEN "S" ELSE AsciiUpperTable[c]
Values(seq) == {seq[i] : i \in DOMAIN seq}
Rows == DOMAIN df.rows
NameOf(i) == df.rows[i][NameCol]

\* s contains the needle with each ASCII letter in either case
ContainsCI(s, needle) ==
    \E i \in 0..(Len(s) - Len(needle)) :
        \A k \in DOMAIN needle :
            s[i + k] \in {needle[k], AsciiUpperChar(needle[k])}

CellHas(cell, needle) == ~cell.isna /\ ContainsCI(cell.s, needle)

AllNetworksNull(r) == \A c \in NetworkSet : r[c].isna

\* both predicates hold on record r
Qualifies(r) ==
    /\ \E c \in NetworkSet : CellHas(r[c], VisaNeedle)
    /\ CellHas(r[BankCol], BankNeedle)

QualifyingRows == {i \in Rows : Qualifies(df.rows[i])}

\* the first qualifying row that carries value v (0 when there is none)
FirstQualifying(v) ==
    LET S == {i \in QualifyingRows : NameOf(i) = v}
    IN IF S = {} THEN 0 ELSE CHOOSE i \in S : \A j \in S : i <= j

\* what the script prints for a result sequence
ExpectedOutput(values) ==
    <<HeaderLine>> \o [i \in DOMAIN values |-> <<"", Str(values[i]), "(Visa Signature)">>]

C2_WitnessDuplicate ==
    /\ Bound("matching_cards")
    /\ Cardinality(QualifyingRows) = 2
    /\ Len(matching_cards) = 1

(***************************************************************************)
(* C3: a row whose four network cells are all empty never satisfies the    *)
(* any-match predicate, whatever its 'Bank'; a row whose 'Bank' cell is    *)
(* empty never satisfies the single-column predicate; such a row is never  *)
(* selected, so every result value comes from a row that is neither.       *)
(***************************************************************************)
C3_NullNeverMatches ==
    /\ Bound("visa_mask") =>
          \A i \in Rows : AllNetworksNull(df.rows[i]) => ~visa_mask[i]
    /\ Bound("canara_mask") =>
          \A i \in Rows : df.rows[i][BankCol].isna => ~canara_mask[i]
    /\ Bound("final_mask") =>
          \A i \in Rows :
              (AllNetworksNull(df.rows[i]) \/ df.rows[i][BankCol].isna)
                  => ~final_mask[i]
    /\ Bound("matching_cards") =>
          \A v \in Values(matching_cards) :
              \E i \in Rows : /\ NameOf(i) = v
                              /\ ~AllNetworksNull(df.rows[i])
                              /\ ~df.rows[i][BankCol].isna

\* a row with no network at all and an ICICI bank was left out of a
\* non-empty result
C3_Witness ==
    /\ Bound("matching_cards")
    /\ matching_cards # <<>>
    /\ \E i \in Rows : /\ AllNetworksNull(df.rows[i])
                       /\ CellHas(df.rows[i][BankCol], BankNeedle)
                       /\ ~final_mask[i]
                       /\ NameOf(i) \notin Values(matching_cards)

(***************************************************************************)
(* C4: empty cells are never an error: once a table whose header has       *)
(* every required column is loaded, the run does not end in an exception,  *)
(* whichever cells of the network and bank columns are empty.              *)
(***************************************************************************)
C4_NullsNeverFail ==
    (Bound("df") /\ RequiredCols \subseteq df.columns) => pc # "raised"

(***************************************************************************)
(* C5: changing the letter case of the text of one network or bank cell    *)
(* leaves both masks and the result unchanged.                             *)
(***************************************************************************)
\* the frame with the texts of column col re-cased character by character
\* by F; the rows are matched one by one, so re-casing a column changes an
\* outcome exactly when re-casing one of its cells does
RecaseColumn(frame, col, F(_)) ==
    [frame EXCEPT !.rows =
        [i \in DOMAIN @ |->
            [@[i] EXCEPT ![col] =
                IF @.isna THEN @ ELSE Text([k \in DOMAIN @.s |-> F(@.s[k])])]]]

\* the masks and the result the script computes on frame are the ones it
\* computed on df
SameOutcome(frame) ==
    /\ Bound("visa_mask") => VisaMask(frame) = visa_mask
    /\ Bound("canara_mask") => CanaraMask(frame) = canara_mask
    /\ Bound("matching_cards") =>
          Unique(Loc(frame, And(VisaMask(frame), CanaraMask(frame)), NameCol))
              = matching_cards

MatchedColumns ==
    (IF Bound("visa_mask") THEN NetworkSet ELSE {})
    \cup (IF Bound("canara_mask") THEN {BankCol} ELSE {})

C6_AllOrNothing ==
    /\ pc = "raised" => stdout = <<>>
    /\ pc = "exit0" => stdout = ExpectedOutput(matching_cards)
    /\ stdout # <<>> => /\ pc \in {"for_card", "exit0"}
                        /\ Bound("matching_cards")
                        /\ exc = "None"
    /\ (~csv_file.exists \/ NameCol \notin csv_file.header) => stdout = <<>>

\* both masks were computed, then the missing card-name column ended the
\* run without output
C6_Witness ==
    /\ pc = "raised"
    /\ raised_at = "matching_cards"
    /\ Bound("final_mask")
    /\ Len(final_mask) > 0
    /\ stdout = <<>>

(***************************************************************************)
(* C7: the reporter prints the header exactly once and first, then one     *)
(* line per result value in result order, each holding the value and the   *)
(* fixed suffix; for an empty result it prints the header alone.           *)
(***************************************************************************)
C7_Reporter ==
    /\ pc \in {"read_csv", "visa_mask", "canara_mask", "final_mask",
               "matching_cards", "print_header"} => stdout = <<>>
    /\ pc = "for_card" =>
          stdout = SubSeq(ExpectedOutput(matching_cards), 1, 1 + iter)
    /\ pc = "exit0" =>
          /\ Len(stdout) = 1 + Len(matching_cards)
          /\ stdout[1] = HeaderLine
          /\ \A k \in DOMAIN matching_cards :
                stdout[k + 1] = <<"", Str(matching_cards[k]), "(Visa Signature)">>

\* a completed run with two result values: header and two lines
C7_Witness ==
    /\ pc = "exit0"
    /\ Len(matching_cards) = 2
    /\ Len(stdout) = 3

\* a completed run with an empty result: the header alone
C7_WitnessEmpty ==
    /\ pc = "exit0"
    /\ matching_cards = <<>>
    /\ Len(df.rows) > 0
    /\ stdout = <<HeaderLine>>

(***************************************************************************)
(* C8: on the four-record example table the run completes and the result   *)
(* is exactly <<Card A>>.                                                  *)
(***************************************************************************)
C8_Example ==
    (csv_file = ExampleFile /\ pc \in {"exit0", "raised"}) =>
        (pc = "exit0" /\ matching_cards = <<Text(CardA)>>)

(***************************************************************************)
(* C9: a missing required column is a Missing-Column (KeyError) failure.   *)
(***************************************************************************)
MissingColumnFailure == pc = "raised" /\ exc = "KeyError"

\* as claimed: the failure comes at filter setup, before either predicate
\* is evaluated on any row
C9_FailFast ==
    MissingColumnFailure => (~Bound("visa_mask") /\ ~Bound("canara_mask"))

\* amended: the failure comes from the statement that first reads the
\* missing column: a network column before any mask exists, 'Bank' after
\* the any-match mask was computed over every row, 'Credit Card Name'
\* after both masks were; never after an output line, and a table that
\* lacks a required column never completes
C9_FailAtFirstUse ==
    /\ MissingColumnFailure =>
          /\ stdout = <<>>
          /\ ~Bound("matching_cards")
          /\ \/ /\ raised_at = "visa_mask"
                /\ ~(NetworkSet \subseteq df.columns)
                /\ bound = {"df"}
             \/ /\ raised_at = "canara_mask"
                /\ NetworkSet \subseteq df.columns
                /\ BankCol \notin df.columns
                /\ bound = {"df", "visa_mask"}
                /\ Len(visa_mask) = Len(df.rows)
             \/ /\ raised_at = "matching_cards"
                /\ NetworkSet \cup {BankCol} \subseteq df.columns
                /\ NameCol \notin df.columns
                /\ bound = {"df", "visa_mask", "canara_mask", "final_mask"}
                /\ Len(visa_mask) = Len(df.rows)
                /\ Len(canara_mask) = Len(df.rows)
    /\ pc = "exit0" => RequiredCols \subseteq df.columns

\* 'Bank' is missing: the any-match mask was computed over the rows first
C9_Witness ==
    /\ MissingColumnFailure
    /\ raised_at = "canara_mask"
    /\ Bound("visa_mask")
    /\ Len(visa_mask) > 0

(***************************************************************************)
(* C10: a qualifying row with an empty 'Credit Card Name' is neither       *)
(* skipped nor an error: the empty value is a result value, all such       *)
(* values are one entry, placed where the first qualifying row carrying it *)
(* stands among the first appearances, and one line is printed for it.     *)
(***************************************************************************)
NullQualifyingRows == {i \in QualifyingRows : NameOf(i).isna}

FirstNullQualifying == CHOOSE i \in NullQualifyingRows : \A j \in NullQualifyingRows : i <= j

NullPositions == {k \in DOMAIN matching_cards : matching_cards[k].isna}

C10_WitnessCollapse ==
    /\ pc = "exit0"
    /\ Cardinality(NullQualifyingRows) = 2
    /\ matching_cards = <<NaN>>

====
